---- MODULE Spec2Model ----
(* Model of scripts/generate_docs_index.py: one run lists the reports      *)
(* directory, derives a date per report file, sorts, ensures the marker    *)
(* file and writes the listing and the landing document.  File names are   *)
(* sequences of one-character strings; a date is <<year, month, day>> and  *)
(* the absent date (Python None) is the empty tuple.                       *)
EXTENDS Integers, Sequences, FiniteSets, TLC

\* ---------------------------------------------------------------- bounds
MaxFiles == 2
MaxRuns == 2
MaxTicks == 1
MaxPairs == 2

\* ------------------------------------------------------------ characters
None == <<>>

Digits == <<"0", "1", "2", "3", "4", "5", "6", "7", "8", "9">>

LowerLetters == <<"a", "b", "c", "d", "e", "f", "g", "h", "i", "j", "k", "l", "m",
                  "n", "o", "p", "q", "r", "s", "t", "u", "v", "w", "x", "y", "z">>

UpperLetters == <<"A", "B", "C", "D", "E", "F", "G", "H", "I", "J", "K", "L", "M",
                  "N", "O", "P", "Q", "R", "S", "T", "U", "V", "W", "X", "Y", "Z">>

Range(s) == {s[i] : i \in DOMAIN s}

DigitChars == Range(Digits)

UpperChars == Range(UpperLetters)

AlphaChars == Range(LowerLetters) \cup Range(UpperLetters)

\* \d of the two regular expressions
IsDigit(c) == c \in DigitChars

\* [A-Za-z] of date_like
IsAlpha(c) == c \in AlphaChars

\* [-_ ] of date_like
IsSep(c) == c \in {"-", "_", " "}

DigitVal(c) == (CHOOSE i \in DOMAIN Digits : Digits[i] = c) - 1

\* str.lower() on one character, then on a string
LowerChar(c) ==
    IF c \in UpperChars
    THEN LowerLetters[CHOOSE i \in DOMAIN UpperLetters : UpperLetters[i] = c]
    ELSE c

\* the comparison of line 25 without .lower()
lower_omitted(s) == s

lower(s) == [i \in DOMAIN s |-> LowerChar(s[i])]

endswith(s, suf) ==
    /\ Len(s) >= Len(suf)
    /\ SubSeq(s, Len(s) - Len(suf) + 1, Len(s)) = suf

\* ----------------------------------------------------------------- dates
IsLeap(y) == (y % 4 = 0 /\ y % 100 # 0) \/ y % 400 = 0

DaysIn(y, m) ==
    IF m = 2 THEN (IF IsLeap(y) THEN 29 ELSE 28)
    ELSE IF m \in {4, 6, 9, 11} THEN 30 ELSE 31

\* datetime.date(y, m, d) accepts exactly these
ValidDate(y, m, d) ==
    /\ y >= 1 /\ y <= 9999
    /\ m >= 1 /\ m <= 12
    /\ d >= 1 /\ d <= DaysIn(y, m)

\* date comparison, as Python compares date objects
DateLess(a, b) ==
    \/ a[1] < b[1]
    \/ a[1] = b[1] /\ a[2] < b[2]
    \/ a[1] = b[1] /\ a[2] = b[2] /\ a[3] < b[3]

\* %0wd
RECURSIVE Pad(_, _)
Pad(n, w) == IF w = 0 THEN <<>> ELSE Pad(n \div 10, w - 1) \o <<Digits[(n % 10) + 1]>>

\* date.isoformat()
isoformat(dt) == Pad(dt[1], 4) \o <<"-">> \o Pad(dt[2], 2) \o <<"-">> \o Pad(dt[3], 2)

\* int() of a run of digits
RECURSIVE ToInt(_)
ToInt(s) == IF s = <<>> THEN 0 ELSE 10 * ToInt(SubSeq(s, 1, Len(s) - 1)) + DigitVal(s[Len(s)])

DigitsAt(s, i, k) ==
    /\ i >= 1 /\ i + k - 1 <= Len(s)
    /\ \A j \in i..(i + k - 1) : IsDigit(s[j])

CharAt(s, i, c) == i >= 1 /\ i <= Len(s) /\ s[i] = c

\* ------------------------------------------------- layer 1: strict ISO
\* date_regex_iso matches at position i: \d{4}-\d{2}-\d{2}
IsoAt(s, i) ==
    /\ DigitsAt(s, i, 4) /\ CharAt(s, i + 4, "-")
    /\ DigitsAt(s, i + 5, 2) /\ CharAt(s, i + 7, "-")
    /\ DigitsAt(s, i + 8, 2)

\* the search of date_regex_iso from position i on: the first match, or None
RECURSIVE IsoFrom(_, _)
IsoFrom(s, i) ==
    IF i > Len(s) THEN None
    ELSE IF IsoAt(s, i) THEN SubSeq(s, i, i + 9)
    ELSE IsoFrom(s, i + 1)

\* date_regex_iso.search(fname).group(1): the leftmost match, or None
date_regex_iso_search(s) == IsoFrom(s, 1)

\* datetime.date(y, m, d); None stands for the ValueError
make_date(y, m, d) == IF ValidDate(y, m, d) THEN <<y, m, d>> ELSE None

\* datetime.strptime(g, "%Y-%m-%d").date(), g a match of date_regex_iso
strptime_ymd(g) ==
    make_date(ToInt(SubSeq(g, 1, 4)), ToInt(SubSeq(g, 6, 7)), ToInt(SubSeq(g, 9, 10)))

\* lines 34-38 given the result of the search
parse_iso_match(g) == IF g = None THEN None ELSE strptime_ymd(g)

\* layer 1 of extract_date_from_name
layer_iso(fname) == parse_iso_match(date_regex_iso_search(fname))

\* ------------------------------------- layer 2: partial month-name form
\* length of the run of letters that starts at position i (0 when none)
RECURSIVE AlphaRun(_, _)
AlphaRun(s, i) ==
    IF i >= 1 /\ i <= Len(s) /\ IsAlpha(s[i]) THEN 1 + AlphaRun(s, i + 1) ELSE 0

\* [-_ ]? at position i: the number of characters it takes (greedy)
SepLen(s, i) == IF i >= 1 /\ i <= Len(s) /\ IsSep(s[i]) THEN 1 ELSE 0

\* \d{4} at position t ends a match of date_like: the position of the last
\* matched character, 0 when there is no match
YearEnd(s, t) == IF DigitsAt(s, t, 4) THEN t + 3 ELSE 0

\* [-_ ]?\d{4} from position r
SepYearEnd(s, r) == YearEnd(s, r + SepLen(s, r))

\* [A-Za-z]{3,}[-_ ]?\d{4} from position q, n being the length of the run of
\* letters at q.  The classes of consecutive pieces are disjoint, so the
\* greedy choice of each piece is the only one that can match.
LettersYearEnd(s, q, n) == IF n >= 3 THEN SepYearEnd(s, q + n) ELSE 0

\* [-_ ]?[A-Za-z]{3,}[-_ ]?\d{4} from position p
SepLettersYearEnd(s, p) ==
    LettersYearEnd(s, p + SepLen(s, p), AlphaRun(s, p + SepLen(s, p)))

\* first alternative of date_like at position i:
\*   \d{1,2}[-_ ]?[A-Za-z]{3,}[-_ ]?\d{4}
DayFirstEnd(s, i) ==
    IF DigitsAt(s, i, 2) THEN SepLettersYearEnd(s, i + 2)
    ELSE IF DigitsAt(s, i, 1) THEN SepLettersYearEnd(s, i + 1)
    ELSE 0

\* e2 if it is a match, else e1
Either(e2, e1) == IF e2 # 0 THEN e2 ELSE e1

\* \d{1,2}[-_ ]?\d{4} from position p: two digits are tried first, then one
DayYearEnd(s, p) ==
    Either(IF DigitsAt(s, p, 2) THEN SepYearEnd(s, p + 2) ELSE 0,
           IF DigitsAt(s, p, 1) THEN SepYearEnd(s, p + 1) ELSE 0)

\* [-_ ]?\d{1,2}[-_ ]?\d{4} from position q
SepDayYearEnd(s, q) == DayYearEnd(s, q + SepLen(s, q))

\* second alternative of date_like at position i, n being the length of the
\* run of letters at i:
\*   [A-Za-z]{3,}[-_ ]?\d{1,2}[-_ ]?\d{4}
MonthFirstEndRun(s, i, n) == IF n >= 3 THEN SepDayYearEnd(s, i + n) ELSE 0

MonthFirstEnd(s, i) == MonthFirstEndRun(s, i, AlphaRun(s, i))

DateLikeEnd(s, i) == Either(DayFirstEnd(s, i), MonthFirstEnd(s, i))

\* the search of date_like from position i on: the first match, or None
RECURSIVE DateLikeFrom(_, _)
RECURSIVE DateLikeTry(_, _, _)
DateLikeTry(s, i, e) == IF e # 0 THEN SubSeq(s, i, e) ELSE DateLikeFrom(s, i + 1)

DateLikeFrom(s, i) == IF i > Len(s) THEN None ELSE DateLikeTry(s, i, DateLikeEnd(s, i))

\* date_like.search(fname).group(0): the leftmost match, or None
date_like_search(s) == DateLikeFrom(s, 1)

\* ------------------------------------------------ dateutil.parser.parse
\* The library is not part of the repository.  What it reads out of a text
\* is left open: <<y, m, d>> with 0 for a field the text does not give, or
\* Fail when the library raises; the only constraint is that a field it
\* reads is written in the text (CanRead).  What it does with the fields is
\* its documented contract: a field the text does not give is taken from
\* datetime.now(), the day clamped to the month's length; an impossible date
\* raises.
Fail == <<>>

FieldOutcome == {Fail, <<2025, 2, 0>>, <<2025, 9, 15>>, <<2025, 1, 13>>}

\* length of the run of digits that starts at position i (0 when none)
RECURSIVE DigitRun(_, _)
DigitRun(s, i) ==
    IF i >= 1 /\ i <= Len(s) /\ IsDigit(s[i]) THEN 1 + DigitRun(s, i + 1) ELSE 0

\* the numbers written in s from position i on, as maximal runs of digits
RECURSIVE DigitRunsFrom(_, _)
DigitRunsFrom(s, i) ==
    IF i > Len(s) THEN {}
    ELSE LET n == DigitRun(s, i)
         IN  (IF n = 0 THEN {} ELSE {ToInt(SubSeq(s, i, i + n - 1))})
                 \cup DigitRunsFrom(s, i + (IF n = 0 THEN 1 ELSE n))

DigitRuns(s) == DigitRunsFrom(s, 1)

Contains(s, t) == \E i \in 1..(Len(s) - Len(t) + 1) : SubSeq(s, i, i + Len(t) - 1) = t

MonthAbbr ==
    <<<<"j", "a", "n">>, <<"f", "e", "b">>, <<"m", "a", "r">>, <<"a", "p", "r">>,
      <<"m", "a", "y">>, <<"j", "u", "n">>, <<"j", "u", "l">>, <<"a", "u", "g">>,
      <<"s", "e", "p">>, <<"o", "c", "t">>, <<"n", "o", "v">>, <<"d", "e", "c">>>>

\* the fields o are written in text, whose numbers are nums: every field is
\* one of the numbers, or for the month the name of the month
FieldsWritten(text, nums, o) ==
    /\ o[1] # 0 => o[1] \in nums
    /\ o[2] # 0 => o[2] \in nums \/ Contains(lower(text), MonthAbbr[o[2]])
    /\ o[3] # 0 => o[3] \in nums

\* o is something the library can read out of text
CanRead(text, o) == o = Fail \/ FieldsWritten(text, DigitRuns(text), o)

Min(a, b) == IF a <= b THEN a ELSE b

\* dparser.parse(text, dayfirst=True, fuzzy=True).date(), given what the
\* library read out of the text; None stands for the exception
\* the default date with the fields read replacing its own; a day that was
\* not read is the default's, clamped to the month
build_naive(y, m, d, defaultDay) ==
    make_date(y, m, IF d # 0 THEN d ELSE Min(defaultDay, DaysIn(y, m)))

dparser_parse(lx, now) ==
    IF lx = Fail \/ lx = <<0, 0, 0>> THEN None
    ELSE build_naive(IF lx[1] # 0 THEN lx[1] ELSE now[1],
                     IF lx[2] # 0 THEN lx[2] ELSE now[2], lx[3], now[3])

\* lines 41-45 given the result of the search
parse_like_match(g, lex, now) == IF g = None THEN None ELSE dparser_parse(lex[g], now)

\* layer 2 of extract_date_from_name; lex maps a text to what dateutil reads
layer_like(fname, lex, now) == parse_like_match(date_like_search(fname), lex, now)

\* layer 3 of extract_date_from_name
layer_fuzzy(fname, lex, now) == dparser_parse(lex[fname], now)

\* the first of three results that is a date
first_date(d1, d2, d3) == IF d1 # None THEN d1 ELSE IF d2 # None THEN d2 ELSE d3

\* extract_date_from_name with "return None" in the except clause of layer 1:
\* a failed strict parse ends the derivation
extract_date_no_fallthrough(fname, lex, now) ==
    IF date_regex_iso_search(fname) # None THEN layer_iso(fname)
    ELSE first_date(None, layer_like(fname, lex, now), layer_fuzzy(fname, lex, now))

\* extract_date_from_name: the first layer that yields a date
extract_date_from_name(fname, lex, now) ==
    first_date(layer_iso(fname), layer_like(fname, lex, now), layer_fuzzy(fname, lex, now))

\* the texts extract_date_from_name may hand to dateutil for fname
QueriesWith(fname, g) == {fname} \cup (IF g = None THEN {} ELSE {g})

Queries(fname) == QueriesWith(fname, date_like_search(fname))

\* the texts it does hand to dateutil
ConsultedWith(fname, g, lex, now) ==
    IF layer_iso(fname) # None THEN {}
    ELSE IF g = None THEN {fname}
    ELSE IF dparser_parse(lex[g], now) # None THEN {g}
    ELSE {g, fname}

Consulted(fname, lex, now) == ConsultedWith(fname, date_like_search(fname), lex, now)

\* ------------------------------------------------------------ file names
MdExt == <<".", "m", "d">>

\* the name of the generated listing document, excluded at line 25
IndexName == <<"i", "n", "d", "e", "x">> \o MdExt

NameTwoIso ==
    <<"w", "-">> \o isoformat(<<2025, 9, 1>>) \o <<"_">> \o isoformat(<<2025, 9, 7>>) \o MdExt

NameBadFirst ==
    Pad(2025, 4) \o <<"-">> \o Pad(13, 2) \o <<"-">> \o Pad(1, 2) \o <<"_">>
        \o isoformat(<<2025, 9, 7>>) \o <<".", "M", "D">>

NameSept == <<"1", "5", "-", "s", "e", "p", "t", "-">> \o Pad(2025, 4) \o MdExt

NameUpperIndex == <<"I", "N", "D", "E", "X", ".", "M", "D">>

NameFeb == <<"f", "e", "b", "-">> \o Pad(2025, 4) \o MdExt

NameTxt == <<"a", ".", "t", "x", "t">>

NameLeap == isoformat(<<2024, 2, 29>>) \o <<".", "M", "d">>

NameNoLeap == <<"r", "-">> \o Pad(2025, 4) \o <<"-", "0", "2", "-", "2", "9">> \o MdExt

\* the names a reports directory is populated from
Names ==
    {NameTwoIso, NameBadFirst, NameSept, NameFeb, NameUpperIndex, NameTxt}

\* the modification dates a file may carry
MTimes == {<<2024, 3, 2>>, <<2025, 9, 1>>}

\* the local date of the first run
FirstDay == <<2025, 3, 31>>

NextDay(d) ==
    IF d[3] < DaysIn(d[1], d[2]) THEN <<d[1], d[2], d[3] + 1>>
    ELSE IF d[2] < 12 THEN <<d[1], d[2] + 1, 1>>
    ELSE <<d[1] + 1, 1, 1>>

\* sequences of distinct elements of S, of length at most n
DistinctSeqs(S, n) ==
    UNION {{q \in [1..k -> S] : \A i, j \in 1..k : i # j => q[i] # q[j]} : k \in 0..n}

\* ------------------------------------------------------------------ files
\* a file of the docs tree: whether it exists, and its content
NoFile == [exists |-> FALSE, content |-> <<>>]

File(c) == [exists |-> TRUE, content |-> c]

\* open(path, "w").close(): truncates
open_write_close(f) == File(<<>>)

\* open(path, "a").close(): creates an empty file, leaves an existing one
open_append_close(f) == IF f.exists THEN f ELSE File(<<>>)

\* with open(path, "a") as fh: fh.writelines(ls)
write_lines_appending(f, ls) == File(f.content \o ls)

\* with open(path, "w") as fh: fh.writelines(ls)
write_lines(f, ls) == File(ls)

\* --------------------------------------------------------------- listing
\* line 25: the condition of the comprehension
is_report(f) == endswith(lower(f), MdExt) /\ f # IndexName

InsertAt(s, k, x) == SubSeq(s, 1, k) \o <<x>> \o SubSeq(s, k + 1, Len(s))

\* lines 61-62 left out
without_mtime_fallback(d, m) == d

\* lines 61-62: the modification date stands in for a missing date
with_mtime_fallback(d, m) == IF d = None THEN m ELSE d

\* --------------------------------------------------------------- sorting
\* key=lambda x: (x[1] is None, x[1]); tuples compare item by item, and the
\* second items are compared only when the first are equal
KeyLess(a, b) ==
    LET na == (a[2] = None)
        nb == (b[2] = None)
    IN  \/ ~na /\ nb
        \/ ~na /\ ~nb /\ DateLess(a[2], b[2])

\* one insertion of a stable descending sort: x goes after every element
\* whose key is not less than its own
RECURSIVE InsertDesc(_, _)
InsertDesc(sorted, x) ==
    IF sorted = <<>> THEN <<x>>
    ELSE IF KeyLess(sorted[1], x) THEN <<x>> \o sorted
    ELSE <<sorted[1]>> \o InsertDesc(Tail(sorted), x)

RECURSIVE SortDesc(_)
SortDesc(ps) ==
    IF ps = <<>> THEN <<>>
    ELSE InsertDesc(SortDesc(SubSeq(ps, 1, Len(ps) - 1)), ps[Len(ps)])

Reverse(s) == [i \in DOMAIN s |-> s[Len(s) + 1 - i]]

\* pairs.sort(key=...) without reverse=True: stable, ascending
sort_pairs_ascending(ps) == Reverse(SortDesc(Reverse(ps)))

\* pairs.sort(key=..., reverse=True)
sort_pairs(ps) == SortDesc(ps)

\* ------------------------------------------------------------- rendering
\* " \u2014 ", the em dash written as one element
Dash == <<" ", "em-dash", " ">>

HeadingLine == [kind |-> "heading", display |-> <<>>, target |-> <<>>]

DescriptionLine == [kind |-> "description", display |-> <<>>, target |-> <<>>]

PlaceholderLine == [kind |-> "placeholder", display |-> <<>>, target |-> <<>>]

\* "- [display](display)\n": the link text used as the target
link_line_to_display(p) ==
    [kind |-> "link",
     display |-> IF p[2] # None THEN isoformat(p[2]) \o Dash \o p[1] ELSE p[1],
     target |-> IF p[2] # None THEN isoformat(p[2]) \o Dash \o p[1] ELSE p[1]]

\* lines 78-81: "- [display](fname)\n"
link_line(p) ==
    [kind |-> "link",
     display |-> IF p[2] # None THEN isoformat(p[2]) \o Dash \o p[1] ELSE p[1],
     target |-> p[1]]

\* lines 72-81
render_lines(ps) ==
    <<HeadingLine, DescriptionLine>>
        \o (IF ps = <<>> THEN <<PlaceholderLine>>
            ELSE [i \in 1..Len(ps) |-> link_line(ps[i])])

\* lines 88-92: only the "Updated" line varies
render_main(now) ==
    <<[kind |-> "heading", stamp |-> None], [kind |-> "updated", stamp |-> now],
      [kind |-> "browse", stamp |-> None], [kind |-> "trailer", stamp |-> None]>>

\* ------------------------------------------------------------------ state
VARIABLES
    dirList,       \* os.listdir(WEEKLY_DIR) without index.md, in listing order
    mtime,         \* modification date of each file whose date the run has read
    marker,        \* docs/.nojekyll
    weekly_index,  \* docs/weekly-reports/index.md
    main_index,    \* docs/index.md
    today,         \* the local date of the clock
    ticks,         \* how many times the date has changed
    pc,            \* position of the run in the script
    files,         \* line 25
    idx,           \* position of the loop of line 58 in files
    pairs,         \* lines 57-66
    lines,         \* lines 72-81
    main_lines,    \* lines 88-92
    memo,          \* what dateutil read out of each text it was given
    runs,          \* number of runs started
    before,        \* the three files as they were when the run started
    prev,          \* the listing document left by the previous run, if it completed
    trace,         \* per entry of this run: its name, its date, where the date came
                   \* from and the clock date when it was derived
    abortedAt      \* the step whose filesystem call raised

vars ==
    <<dirList, mtime, marker, weekly_index, main_index, today, ticks, pc, files, idx,
      pairs, lines, main_lines, memo, runs, before, prev, trace, abortedAt>>

fsVars == <<dirList>>

histVars == <<runs, before, prev>>

NoMemo == [s \in {} |-> Fail]

\* before the first run: the reports are in place, nothing has been generated;
\* the marker file may have been put there by hand
Init ==
    /\ dirList \in DistinctSeqs(Names, MaxFiles)
    /\ mtime = [f \in {} |-> None]
    /\ marker \in {NoFile, File(<<"x">>)}
    /\ weekly_index = NoFile
    /\ main_index = NoFile
    /\ today = FirstDay
    /\ ticks = 0
    /\ pc = "idle"
    /\ files = <<>>
    /\ idx = 1
    /\ pairs = <<>>
    /\ lines = <<>>
    /\ main_lines = <<>>
    /\ memo = NoMemo
    /\ runs = 0
    /\ before = [marker |-> marker, weekly |-> weekly_index, main |-> main_index]
    /\ prev = [ok |-> FALSE, content |-> <<>>]
    /\ trace = <<>>
    /\ abortedAt = "none"

\* the script is started: a fresh interpreter, module-level names unset.  A
\* run that ended in a fatal error is not followed by another one.
Start ==
    /\ pc \in {"idle", "done"}
    /\ runs < MaxRuns
    /\ pc' = "start"
    /\ runs' = runs + 1
    /\ files' = <<>>
    /\ idx' = 1
    /\ pairs' = <<>>
    /\ lines' = <<>>
    /\ main_lines' = <<>>
    /\ trace' = <<>>
    /\ abortedAt' = "none"
    /\ before' = [marker |-> marker, weekly |-> weekly_index, main |-> main_index]
    /\ prev' = IF pc = "done" THEN [ok |-> TRUE, content |-> weekly_index.content]
               ELSE [ok |-> FALSE, content |-> <<>>]
    /\ UNCHANGED <<fsVars, mtime, marker, weekly_index, main_index, today, ticks, memo>>

\* midnight passes between two runs
Tick ==
    /\ pc = "done"
    /\ ticks < MaxTicks
    /\ ticks' = ticks + 1
    /\ today' = NextDay(today)
    /\ UNCHANGED <<fsVars, mtime, marker, weekly_index, main_index, pc, files, idx, pairs,
                   lines, main_lines, memo, histVars, trace, abortedAt>>

\* a filesystem call of the step raises: the process ends there
Abort(step) ==
    /\ pc' = "aborted"
    /\ abortedAt' = step

\* lines 22-25: makedirs, listdir (the listing document, once written, is
\* one of the names listed, at any position) and the filter
Collect ==
    /\ pc = "start"
    /\ \E k \in 0..Len(dirList) :
         LET listed == IF weekly_index.exists THEN InsertAt(dirList, k, IndexName)
                       ELSE dirList
         IN  files' = SelectSeq(listed, is_report)
    /\ pc' = "build"
    /\ UNCHANGED <<fsVars, mtime, marker, weekly_index, main_index, today, ticks, idx, pairs,
                   lines, main_lines, memo, histVars, trace, abortedAt>>

FailCollect ==
    /\ pc = "start"
    /\ Abort("collect")
    /\ UNCHANGED <<fsVars, mtime, marker, weekly_index, main_index, today, ticks, files, idx,
                   pairs, lines, main_lines, memo, histVars, trace>>

\* what dateutil reads out of the texts of fname: as before for a text it
\* has seen, anything it can read for a new one
Readings(t) ==
    IF t \in DOMAIN memo THEN {memo[t]} ELSE {o \in FieldOutcome : CanRead(t, o)}

LexOver(Q) == {lex \in [Q -> FieldOutcome] : \A t \in Q : lex[t] \in Readings(t)}

LexFor(fname) == LexOver(Queries(fname))

RememberTexts(new, lex) ==
    [t \in DOMAIN memo \cup new |-> IF t \in DOMAIN memo THEN memo[t] ELSE lex[t]]

Remember(fname, lex) == RememberTexts(Consulted(fname, lex, today), lex)

\* file_mtime_date(path): the date the file carries; the same at every read,
\* as nothing modifies the report files
MtimeFor(f) == IF f \in DOMAIN mtime THEN {mtime[f]} ELSE MTimes

\* lines 60-63 for file f, d being the date extracted from its name
AppendPair(f, d) ==
    \E m \in (IF d = None THEN MtimeFor(f) ELSE {None}) :
        /\ pairs' = Append(pairs, <<f, with_mtime_fallback(d, m)>>)
        /\ trace' = Append(trace, [name |-> f,
                                   date |-> with_mtime_fallback(d, m),
                                   src |-> IF d = None THEN "mtime" ELSE "name",
                                   now |-> today])
        /\ mtime' = IF d = None
                    THEN [g \in DOMAIN mtime \cup {f} |-> IF g = f THEN m ELSE mtime[g]]
                    ELSE mtime

\* lines 58-63, one iteration
BuildPair ==
    /\ pc = "build"
    /\ idx <= Len(files)
    /\ \E lex \in LexFor(files[idx]) :
         /\ AppendPair(files[idx], extract_date_from_name(files[idx], lex, today))
         /\ memo' = Remember(files[idx], lex)
    /\ idx' = idx + 1
    /\ UNCHANGED <<fsVars, marker, weekly_index, main_index, today, ticks, pc, files,
                   lines, main_lines, histVars, abortedAt>>

\* line 53: os.path.getmtime raises (the name is a dangling link, or gone)
FailMtime ==
    /\ pc = "build"
    /\ idx <= Len(files)
    /\ \E lex \in LexFor(files[idx]) :
         /\ extract_date_from_name(files[idx], lex, today) = None
         /\ memo' = Remember(files[idx], lex)
    /\ Abort("mtime")
    /\ UNCHANGED <<fsVars, mtime, marker, weekly_index, main_index, today, ticks, files, idx,
                   pairs, lines, main_lines, histVars, trace>>

\* line 66
Sort ==
    /\ pc = "build"
    /\ idx > Len(files)
    /\ pairs' = sort_pairs(pairs)
    /\ pc' = "sorted"
    /\ UNCHANGED <<fsVars, mtime, marker, weekly_index, main_index, today, ticks, files, idx,
                   lines, main_lines, memo, histVars, trace, abortedAt>>

\* line 69
Marker ==
    /\ pc = "sorted"
    /\ marker' = open_append_close(marker)
    /\ pc' = "marked"
    /\ UNCHANGED <<fsVars, mtime, weekly_index, main_index, today, ticks, files, idx, pairs,
                   lines, main_lines, memo, histVars, trace, abortedAt>>

FailMarker ==
    /\ pc = "sorted"
    /\ Abort("marker")
    /\ UNCHANGED <<fsVars, mtime, marker, weekly_index, main_index, today, ticks, files, idx,
                   pairs, lines, main_lines, memo, histVars, trace>>

\* lines 72-81
Render ==
    /\ pc = "marked"
    /\ lines' = render_lines(pairs)
    /\ pc' = "rendered"
    /\ UNCHANGED <<fsVars, mtime, marker, weekly_index, main_index, today, ticks, files, idx,
                   pairs, main_lines, memo, histVars, trace, abortedAt>>

\* lines 83-85
WriteWeekly ==
    /\ pc = "rendered"
    /\ weekly_index' = write_lines(weekly_index, lines)
    /\ pc' = "weekly_written"
    /\ UNCHANGED <<fsVars, mtime, marker, main_index, today, ticks, files, idx, pairs, lines,
                   main_lines, memo, histVars, trace, abortedAt>>

\* line 84: open raises, the file is not touched
FailWeeklyOpen ==
    /\ pc = "rendered"
    /\ Abort("weekly_open")
    /\ UNCHANGED <<fsVars, mtime, marker, weekly_index, main_index, today, ticks, files, idx,
                   pairs, lines, main_lines, memo, histVars, trace>>

\* line 85: the file was truncated by open, the write raises part-way
FailWeeklyWrite ==
    /\ pc = "rendered"
    /\ \E k \in 0..(Len(lines) - 1) :
         weekly_index' = write_lines(weekly_index, SubSeq(lines, 1, k))
    /\ Abort("weekly_write")
    /\ UNCHANGED <<fsVars, mtime, marker, main_index, today, ticks, files, idx, pairs, lines,
                   main_lines, memo, histVars, trace>>

\* lines 88-95
WriteMain ==
    /\ pc = "weekly_written"
    /\ main_lines' = render_main(today)
    /\ main_index' = write_lines(main_index, render_main(today))
    /\ pc' = "done"
    /\ UNCHANGED <<fsVars, mtime, marker, weekly_index, today, ticks, files, idx, pairs, lines,
                   memo, histVars, trace, abortedAt>>

\* line 94: open raises
FailMainOpen ==
    /\ pc = "weekly_written"
    /\ main_lines' = render_main(today)
    /\ Abort("main_open")
    /\ UNCHANGED <<fsVars, mtime, marker, weekly_index, main_index, today, ticks, files, idx,
                   pairs, lines, memo, histVars, trace>>

\* line 95: the write raises part-way
FailMainWrite ==
    /\ pc = "weekly_written"
    /\ main_lines' = render_main(today)
    /\ \E k \in 0..(Len(render_main(today)) - 1) :
         main_index' = write_lines(main_index, SubSeq(render_main(today), 1, k))
    /\ Abort("main_write")
    /\ UNCHANGED <<fsVars, mtime, marker, weekly_index, today, ticks, files, idx, pairs, lines,
                   memo, histVars, trace>>

Next ==
    \/ Start
    \/ Tick
    \/ Collect
    \/ FailCollect
    \/ BuildPair
    \/ FailMtime
    \/ Sort
    \/ Marker
    \/ FailMarker
    \/ Render
    \/ WriteWeekly
    \/ FailWeeklyOpen
    \/ FailWeeklyWrite
    \/ WriteMain
    \/ FailMainOpen
    \/ FailMainWrite

Spec == Init /\ [][Next]_vars

\* ------------------------------------------- the sort as a pure function
\* entries whose date may be absent, as the key of line 66 provides for
SortNames == {NameUpperIndex, NameSept, NameLeap, NameNoLeap}

SortDates == {None, <<2024, 3, 2>>, <<2025, 9, 1>>}

SortInit ==
    /\ \E names \in DistinctSeqs(SortNames, MaxPairs) :
         /\ files = names
         /\ pairs \in {ps \in [DOMAIN names -> SortNames \X SortDates] :
                          \A i \in DOMAIN names : ps[i][1] = names[i]}
    /\ idx = Len(files) + 1
    /\ pc = "build"
    /\ dirList = files
    /\ mtime = [f \in {} |-> None]
    /\ marker = NoFile
    /\ weekly_index = NoFile
    /\ main_index = NoFile
    /\ today = FirstDay
    /\ ticks = 0
    /\ lines = <<>>
    /\ main_lines = <<>>
    /\ memo = NoMemo
    /\ runs = 1
    /\ before = [marker |-> NoFile, weekly |-> NoFile, main |-> NoFile]
    /\ prev = [ok |-> FALSE, content |-> <<>>]
    /\ trace = <<>>
    /\ abortedAt = "none"

SortNext == Sort

SortSpec == SortInit /\ [][SortNext]_vars

\* ================================================================ claims
\* the run is past line 66
AfterSort ==
    \/ pc \in {"sorted", "marked", "rendered", "weekly_written", "done"}
    \/ pc = "aborted" /\ abortedAt \in {"marker", "weekly_open", "weekly_write",
                                        "main_open", "main_write"}

\* the run is past line 81
AfterRender ==
    \/ pc \in {"rendered", "weekly_written", "done"}
    \/ pc = "aborted" /\ abortedAt \in {"weekly_open", "weekly_write",
                                        "main_open", "main_write"}

\* the lines of a listing after its heading and description
Body(ls) == SubSeq(ls, 3, Len(ls))

\* C1: after the sort step the entry list is in descending order of derived
\* date (no entry is followed by one with a later date) and is a permutation
\* of the entries built from the discovered files.
C1_SortedDescending ==
    AfterSort =>
        /\ \A i, j \in DOMAIN pairs : i < j => ~DateLess(pairs[i][2], pairs[j][2])
        /\ Len(pairs) = Len(trace)
        /\ \A t \in DOMAIN trace :
             Cardinality({i \in DOMAIN pairs :
                             pairs[i] = <<trace[t].name, trace[t].date>>}) = 1

\* two entries were built in ascending order of date and the sort swapped them
C1_Witness ==
    /\ pc = "sorted"
    /\ Len(pairs) = 2
    /\ DateLess(trace[1].date, trace[2].date)
    /\ pairs[1][1] = trace[2].name
    /\ pairs[2][1] = trace[1].name

FirstValidIso(s) ==
    LET starts == {i \in 1..Len(s) :
                      IsoAt(s, i) /\ strptime_ymd(SubSeq(s, i, i + 9)) # None}
    IN  IF starts = {} THEN None
        ELSE LET i == CHOOSE k \in starts : \A j \in starts : k <= j
             IN  strptime_ymd(SubSeq(s, i, i + 9))

\* C3: an entry whose file name contains a YYYY-MM-DD substring that is a
\* calendar date gets the first such substring as its date, from the name.
C3_IsoSubstringWins ==
    \A t \in DOMAIN trace :
        FirstValidIso(trace[t].name) # None =>
            /\ trace[t].src = "name"
            /\ trace[t].date = FirstValidIso(trace[t].name)

\* all three filename layers fail for fname at clock date now
AllLayersFail(fname, now) ==
    /\ layer_iso(fname) = None
    /\ layer_like(fname, memo, now) = None
    /\ layer_fuzzy(fname, memo, now) = None

\* entry e took the result d of a filename layer
FromName(e, d) == e.src = "name" /\ e.date = d

\* entry e took the modification date
FromMtime(e) == e.src = "mtime" /\ e.date = mtime[e.name]

\* the third layer gave l3: e has it, or the modification date if it failed
ChainFuzzy(e, l3) == IF l3 # None THEN FromName(e, l3) ELSE FromMtime(e)

\* the second layer gave l2: e has it, or what the third layer decides
ChainLike(e, l2) ==
    IF l2 # None THEN FromName(e, l2)
    ELSE ChainFuzzy(e, layer_fuzzy(e.name, memo, e.now))

\* the first layer gave l1: e has it, or what the later layers decide
ChainIso(e, l1) ==
    IF l1 # None THEN FromName(e, l1)
    ELSE ChainLike(e, layer_like(e.name, memo, e.now))

\* C4: the date of every entry is the result of the first of the layers
\* strict ISO, month-name pattern, whole-name parse that yields a date; the
\* modification date is used exactly when all three fail; and the derivation
\* ends the run only when the modification date had to be read.  Stated at
\* every point of the loop of lines 58-63: no later step changes an entry.
C4_FirstSuccessChain ==
    /\ pc = "build" =>
         /\ Len(trace) = idx - 1
         /\ \A t \in DOMAIN trace : ChainIso(trace[t], layer_iso(trace[t].name))
    /\ pc = "aborted" /\ abortedAt = "mtime" => AllLayersFail(files[idx], today)

\* the strict parse of the first ISO-like run failed and a later layer
\* supplied the date; another entry fell through all three layers
C4_Witness ==
    /\ pc = "build"
    /\ Len(trace) = 2
    /\ trace[1].name = NameBadFirst
    /\ trace[1].src = "name"
    /\ trace[2].src = "mtime"

\* C5: a run that follows a completed run leaves the listing document with
\* the content the previous run gave it (the report files never change).
C5_RerunIdentical ==
    pc = "done" /\ prev.ok => weekly_index.content = prev.content

\* C6: a step leaves an existing marker file as it is, and a marker file that
\* comes into existence is empty.
C6_MarkerUntouched ==
    [][/\ marker.exists => marker' = marker
       /\ ~marker.exists /\ marker'.exists => marker'.content = <<>>]_vars

\* the second run has passed line 69 with a marker file that had content
C6_Witness ==
    /\ runs = 2
    /\ pc = "marked"
    /\ before.marker.exists
    /\ before.marker.content # <<>>
    /\ marker = before.marker

\* C7: the body of the listing is the placeholder alone when no entry was
\* discovered, and otherwise one link line per entry, in the order of the
\* sorted list, whose target is the file name; the written document is these
\* lines.
C7_BodyFromEntries ==
    AfterRender =>
        /\ files = <<>> => Body(lines) = <<PlaceholderLine>>
        /\ files # <<>> =>
             /\ Len(Body(lines)) = Len(files)
             /\ \A i \in DOMAIN pairs :
                  /\ Body(lines)[i].kind = "link"
                  /\ Body(lines)[i].target = pairs[i][1]
                  /\ Body(lines)[i].target \in Range(files)
        /\ pc \in {"weekly_written", "done"} => weekly_index.content = lines

\* a listing of two entries was written
C7_Witness ==
    /\ pc = "done"
    /\ Len(files) = 2
    /\ Len(weekly_index.content) = 4
    /\ weekly_index.content[3].target # weekly_index.content[3].display

\* C8 as stated: a run ends with both documents written by it, or aborted
\* with both documents as they were before it.
C8_NoPartialSuccess ==
    pc \in {"done", "aborted"} =>
        \/ pc = "done" /\ weekly_index = File(lines) /\ main_index = File(main_lines)
        \/ pc = "aborted" /\ weekly_index = before.weekly /\ main_index = before.main

\* C8 amended: a completed run has written both documents; a run that aborts
\* before the listing document is opened for writing leaves both documents as
\* they were; a run that aborts later leaves the landing document as it was
\* (abort in the listing write) or the listing document fully written (abort
\* in the landing write).
C8_AbortBeforeListingKeepsDocuments ==
    /\ pc = "done" => weekly_index = File(lines) /\ main_index = File(main_lines)
    /\ pc = "aborted" /\ abortedAt \in {"collect", "mtime", "marker", "weekly_open"} =>
         weekly_index = before.weekly /\ main_index = before.main
    /\ pc = "aborted" /\ abortedAt = "weekly_write" => main_index = before.main
    /\ pc = "aborted" /\ abortedAt \in {"main_open", "main_write"} =>
         weekly_index = File(lines)
    /\ pc = "aborted" /\ abortedAt = "main_open" => main_index = before.main

\* the marker step failed in a run over earlier documents, which are intact
C8_Witness ==
    /\ pc = "aborted"
    /\ abortedAt = "marker"
    /\ before.weekly.exists
    /\ weekly_index = before.weekly
    /\ pairs # <<>>

\* a name ends in ".md" in some letter case
HasMdExtension(n) ==
    /\ Len(n) >= 3
    /\ n[Len(n) - 2] = "."
    /\ n[Len(n) - 1] \in {"m", "M"}
    /\ n[Len(n)] \in {"d", "D"}

\* the names os.listdir returned to this run
ListedNames == Range(dirList) \cup (IF before.weekly.exists THEN {IndexName} ELSE {})

\* C9: the entries are exactly the listed names that end in ".md" in any
\* letter case and are not "index.md"; the completed listing links to exactly
\* these.
C9_ExactlyTheReports ==
    /\ pc \notin {"idle", "start"} /\ ~(pc = "aborted" /\ abortedAt = "collect") =>
         /\ Range(files) = {n \in ListedNames : HasMdExtension(n) /\ n # IndexName}
         /\ IndexName \notin Range(files)
    /\ pc = "done" =>
         {weekly_index.content[i].target : i \in 3..Len(weekly_index.content)} \ {<<>>}
             = {n \in ListedNames : HasMdExtension(n) /\ n # IndexName}

\* the directory held index.md, INDEX.MD and a.txt; only INDEX.MD is listed
C9_Witness ==
    /\ pc = "done"
    /\ before.weekly.exists
    /\ Range(dirList) = {NameUpperIndex, NameTxt}
    /\ files = <<NameUpperIndex>>

\* C10: every entry built carries a date, and every link line of the listing
\* shows "<date> - <file name>", never the bare file name.
C10_EveryEntryDated ==
    /\ \A i \in DOMAIN pairs : pairs[i][2] # None
    /\ \A i \in DOMAIN lines :
         lines[i].kind = "link" =>
             /\ lines[i].display # lines[i].target
             /\ lines[i].display = isoformat(pairs[i - 2][2]) \o Dash \o pairs[i - 2][1]

\* an entry dated by its modification time is in the written listing
C10_Witness ==
    /\ pc = "done"
    /\ \E t \in DOMAIN trace : trace[t].src = "mtime"
    /\ \E i \in DOMAIN lines : lines[i].kind = "link"

====
